---- MODULE Spec2Model ----
(***************************************************************************)
(* EncoderDriver (encoder_driver.py): a quadrature encoder read through a  *)
(* 16-bit hardware timer in encoder mode.  read() turns successive raw     *)
(* counter snapshots into an unbounded position, zero() resets the origin. *)
(* The shaft (the environment) moves the hardware counter between calls.   *)
(***************************************************************************)
EXTENDS Integers, FiniteSets, Sequences, TLC

\* ---------------------------------------------------------------- bounds
\* Number of shaft movements explored in one behaviour.
MaxMoves == 3

\* ------------------------------------------------------ program constants
\* Size of the range of the timer counter: pyb.Timer(..., period = 2**16 - 1)
\* counts 0..65535 and wraps after 65536 ticks.
CounterRange == 65536

\* Half the counter range, the limit of the sampling assumption.
HalfRange == CounterRange \div 2

\* Net shaft displacements (in ticks) the environment may apply in one step:
\* small steps that cross the wrap point in both directions, the largest step
\* below half the range, exactly half the range, and a step above it.
Steps == {-32768, -32767, -11, -6, 11, 32767, 32768, 40000}

VARIABLES
    counter,            \* timer.counter(): the hardware register, 0..65535
    period,             \* self.period
    delta_val,          \* self.delta_val
    last_tick,          \* self.last_tick
    new_tick,           \* self.new_tick
    true_position,      \* self.true_position
    ret,                \* value returned by the most recent read()
    \* ---- observation of the environment and of the call history
    truePos,            \* true unbounded tick count since construction
    since_read,         \* true displacement since the last read()
    seen_raw,           \* raw value the last read() obtained from the timer
    pos_before,         \* true_position just before the last read()
    has_read,           \* some read() has been called
    zeroed,             \* some zero() has been called
    zeroed_since_read,  \* zero() has been called after the last read()
    zeroed_between,     \* zero() was called between the last two reads
    aliased,            \* some read() came after a displacement >= HalfRange
    wrapped,            \* the hardware counter has wrapped at least once
    bigdiff,            \* some read() saw a raw difference >= HalfRange
    zero_tick,          \* new_tick at the most recent zero(), 0 before any
    moves,              \* number of shaft movements so far
    last_op,            \* the most recent step: init, move, read or zero
    \* ---- a second driver object on its own timer (enc_B on tim_ENC_B)
    counterB,           \* the second timer's counter register
    encB,               \* the fields of the second EncoderDriver object
    \* ---- a read() in progress, statement by statement
    pc,                 \* the statement of read() the main program is at
    acc,                \* the sum line 78 has computed and not yet stored
    obs                 \* what the read() in progress started from and met

fields == <<period, delta_val, last_tick, new_tick, true_position, ret>>
history == <<truePos, since_read, seen_raw, pos_before, has_read, zeroed,
             zeroed_since_read, zeroed_between, aliased, wrapped, bigdiff,
             zero_tick, moves, last_op>>
second == <<counterB, encB>>
intr == <<pc, acc, obs>>
vars == <<counter, fields, history, second, intr>>

Abs(x) == IF x < 0 THEN -x ELSE x

\* EncoderDriver.__init__: the fields after construction; the timer counter
\* starts at 0.
Init ==
    /\ counter = 0
    /\ period = 2^16 - 1
    /\ delta_val = 0
    /\ last_tick = 0
    /\ new_tick = 0
    /\ true_position = 0
    /\ ret = 0
    /\ truePos = 0
    /\ since_read = 0
    /\ seen_raw = 0
    /\ pos_before = 0
    /\ has_read = FALSE
    /\ zeroed = FALSE
    /\ zeroed_since_read = FALSE
    /\ zeroed_between = FALSE
    /\ aliased = FALSE
    /\ wrapped = FALSE
    /\ bigdiff = FALSE
    /\ zero_tick = 0
    /\ moves = 0
    /\ last_op = "init"
    /\ counterB = 0
    /\ encB = [period |-> 2^16 - 1, delta_val |-> 0, last_tick |-> 0,
               new_tick |-> 0, true_position |-> 0]
    /\ pc = "idle"
    /\ acc = 0
    /\ obs = [tp |-> 0, nt |-> 0, raw |-> 0, isr |-> "none", isr_raw |-> 0]

\* The hardware in encoder mode: the shaft turns by d ticks and the 16-bit
\* register follows it modulo its range.
Move ==
    /\ moves < MaxMoves
    /\ \E d \in Steps :
          /\ counter' = (counter + d) % CounterRange
          /\ truePos' = truePos + d
          /\ since_read' = since_read + d
          /\ wrapped' = (wrapped \/ (counter + d) \notin 0..(CounterRange - 1))
    /\ moves' = moves + 1
    /\ last_op' = "move"
    /\ UNCHANGED fields
    /\ UNCHANGED <<seen_raw, pos_before, has_read, zeroed, zeroed_since_read,
                   zeroed_between, aliased, bigdiff, zero_tick>>
    /\ UNCHANGED <<second, intr>>

\* Mutants of the overflow/underflow correction.
NoCorrection(d, p) == d

QuarterCorrection(d, p) ==
    IF 4 * d > p THEN d - p
    ELSE IF 4 * d < -p THEN d + p
    ELSE d

OverflowOnlyCorrection(d, p) ==
    IF 2 * d > p THEN d - p ELSE d

\* Mutant: the correction uses the counter's range instead of self.period.
RangeCorrection(d, p) ==
    IF 2 * d > p THEN d - (p + 1)
    ELSE IF 2 * d < -p THEN d + (p + 1)
    ELSE d

\* Lines 72-76 of read(): the overflow/underflow correction of the raw
\* difference d.  d > 0.5*p on an integer d is 2*d > p.
Correction(d, p) ==
    IF 2 * d > p THEN d - p
    ELSE IF 2 * d < -p THEN d + p
    ELSE d

\* Mutant of read(): the previous reading is not saved.
readKeepsLastTick(raw) ==
    /\ last_tick' = last_tick
    /\ new_tick' = raw
    /\ delta_val' = Correction(raw - last_tick, period)
    /\ true_position' = true_position + delta_val'
    /\ ret' = true_position'
    /\ UNCHANGED <<period, counter>>

\* Mutant of read(): the difference is stored where the reading belongs.
readStoresDifference(raw) ==
    /\ last_tick' = new_tick
    /\ new_tick' = raw - new_tick
    /\ delta_val' = Correction(raw - new_tick, period)
    /\ true_position' = true_position + delta_val'
    /\ ret' = true_position'
    /\ UNCHANGED <<period, counter>>

\* Mutant of read(): the hardware counter is cleared after sampling it.
readResetsCounter(raw) ==
    /\ last_tick' = new_tick
    /\ new_tick' = raw
    /\ delta_val' = Correction(new_tick' - last_tick', period)
    /\ true_position' = true_position + delta_val'
    /\ ret' = true_position'
    /\ counter' = 0
    /\ UNCHANGED period

\* EncoderDriver.read on the raw value timer.counter() returns.
read(raw) ==
    /\ last_tick' = new_tick
    /\ new_tick' = raw
    /\ delta_val' = Correction(new_tick' - last_tick', period)
    /\ true_position' = true_position + delta_val'
    /\ ret' = true_position'
    /\ UNCHANGED <<period, counter>>

\* Mutant of zero(): the reference reading is reset with the position.
zeroResetsTick ==
    /\ true_position' = 0
    /\ new_tick' = 0
    /\ UNCHANGED <<period, delta_val, last_tick, ret, counter>>

\* EncoderDriver.zero.
zero ==
    /\ true_position' = 0
    /\ UNCHANGED <<period, delta_val, last_tick, new_tick, ret, counter>>

\* A call of read().
Read ==
    /\ read(counter)
    /\ seen_raw' = counter
    /\ pos_before' = true_position
    /\ has_read' = TRUE
    /\ zeroed_since_read' = FALSE
    /\ zeroed_between' = zeroed_since_read
    /\ aliased' = (aliased \/ Abs(since_read) >= HalfRange)
    /\ bigdiff' = (bigdiff \/ Abs(counter - seen_raw) >= HalfRange)
    /\ since_read' = 0
    /\ last_op' = "read"
    /\ UNCHANGED <<truePos, zeroed, wrapped, moves, zero_tick>>
    /\ UNCHANGED <<second, intr>>

\* A call of zero().
Zero ==
    /\ zero
    /\ zeroed' = TRUE
    /\ zeroed_since_read' = TRUE
    /\ zero_tick' = new_tick
    /\ last_op' = "zero"
    /\ UNCHANGED <<truePos, since_read, seen_raw, pos_before, has_read,
                   zeroed_between, aliased, wrapped, bigdiff, moves>>
    /\ UNCHANGED <<second, intr>>

Next == Move \/ Read \/ Zero

Spec == Init /\ [][Next]_vars

\* ------------------------------------------- a timer that breaks its range
\* Values outside 0..65535 a timer object handed to the constructor may
\* return from counter(): a negative one and two at and past the range end
\* (a 32-bit timer counts on past 65535).
BadRaw == {-1, 65536, 70000}

\* A call of read() during which timer.counter() returns a value outside
\* 0..65535; read() has no check and runs lines 66-79 on it.
ReadBad ==
    /\ moves < MaxMoves
    /\ \E raw \in BadRaw :
          /\ read(raw)
          /\ seen_raw' = raw
          /\ bigdiff' = (bigdiff \/ Abs(raw - seen_raw) >= HalfRange)
    /\ pos_before' = true_position
    /\ has_read' = TRUE
    /\ zeroed_since_read' = FALSE
    /\ zeroed_between' = zeroed_since_read
    /\ aliased' = (aliased \/ Abs(since_read) >= HalfRange)
    /\ since_read' = 0
    /\ moves' = moves + 1
    /\ last_op' = "badread"
    /\ UNCHANGED <<truePos, zeroed, wrapped, zero_tick>>
    /\ UNCHANGED <<second, intr>>

NextBadTimer == Move \/ Read \/ Zero \/ ReadBad

SpecBadTimer == Init /\ [][NextBadTimer]_vars

\* ------------------------------------------------- two driver objects
\* Shaft displacements of the second encoder.
StepsB == {-6, 11}

\* The fields of the first object, as the second object's methods see them.
fieldsA == <<period, delta_val, last_tick, new_tick, true_position>>

\* EncoderDriver.read on an object given as the record e of its fields.
readOf(e, raw) ==
    LET lt == e.new_tick
        nt == raw
        dv == Correction(nt - lt, e.period)
    IN  [e EXCEPT !.last_tick = lt, !.new_tick = nt, !.delta_val = dv,
                  !.true_position = @ + dv]

\* EncoderDriver.zero on an object given as the record e of its fields.
zeroOf(e) == [e EXCEPT !.true_position = 0]

\* The second timer in encoder mode.
MoveB ==
    /\ moves < MaxMoves
    /\ \E d \in StepsB : counterB' = (counterB + d) % CounterRange
    /\ moves' = moves + 1
    /\ last_op' = "moveB"
    /\ UNCHANGED <<counter, fields, encB, intr>>
    /\ UNCHANGED <<truePos, since_read, seen_raw, pos_before, has_read, zeroed,
                   zeroed_since_read, zeroed_between, aliased, wrapped,
                   bigdiff, zero_tick>>

\* enc_B.read(): self is the second object, self.timer the second timer.
readB ==
    /\ encB' = readOf(encB, counterB)
    /\ UNCHANGED <<counterB, counter, fieldsA>>

\* Mutant of enc_B.zero(): true_position is one attribute shared by all
\* objects of the class.
zeroBShared ==
    /\ encB' = zeroOf(encB)
    /\ true_position' = 0
    /\ UNCHANGED <<counterB, counter, period, delta_val, last_tick, new_tick>>

\* enc_B.zero().
zeroB ==
    /\ encB' = zeroOf(encB)
    /\ UNCHANGED <<counterB, counter, fieldsA>>

\* A call of enc_B.read().
ReadB ==
    /\ readB
    /\ last_op' = "readB"
    /\ UNCHANGED <<ret, intr>>
    /\ UNCHANGED <<truePos, since_read, seen_raw, pos_before, has_read, zeroed,
                   zeroed_since_read, zeroed_between, aliased, wrapped,
                   bigdiff, zero_tick, moves>>

\* A call of enc_B.zero().
ZeroB ==
    /\ zeroB
    /\ last_op' = "zeroB"
    /\ UNCHANGED <<ret, intr>>
    /\ UNCHANGED <<truePos, since_read, seen_raw, pos_before, has_read, zeroed,
                   zeroed_since_read, zeroed_between, aliased, wrapped,
                   bigdiff, zero_tick, moves>>

NextTwo == Move \/ Read \/ Zero \/ MoveB \/ ReadB \/ ZeroB

SpecTwo == Init /\ [][NextTwo]_vars

\* ------------------------------------- read() interrupted between statements
\* read() has no lock and disables no interrupt: an interrupt handler that
\* calls zero() or read() on the same object runs to completion between any
\* two statements of a read() of the main program.  Line 78 is a load of
\* true_position and delta_val followed by a store of their sum.

\* Shaft displacements while a read() may be in progress: a small step
\* backwards, which wraps the counter from 0, and a small step forwards.
StepsIntr == {-6, 11}

\* The hardware in encoder mode, moving also in the middle of a read().
MoveIntr ==
    /\ moves < MaxMoves
    /\ \E d \in StepsIntr :
          /\ counter' = (counter + d) % CounterRange
          /\ truePos' = truePos + d
          /\ since_read' = since_read + d
          /\ wrapped' = (wrapped \/ (counter + d) \notin 0..(CounterRange - 1))
    /\ moves' = moves + 1
    /\ last_op' = "move"
    /\ UNCHANGED fields
    /\ UNCHANGED <<seen_raw, pos_before, has_read, zeroed, zeroed_since_read,
                   zeroed_between, aliased, bigdiff, zero_tick>>
    /\ UNCHANGED <<second, intr>>

\* What the statements of read() leave alone besides the fields they name.
stepFrame ==
    UNCHANGED <<counter, period, second, truePos, since_read, seen_raw,
                pos_before, has_read, zeroed, zeroed_since_read,
                zeroed_between, aliased, wrapped, bigdiff, zero_tick, moves>>

\* Line 66: self.last_tick = self.new_tick; the read() begins.
read66 ==
    /\ pc = "idle"
    /\ last_tick' = new_tick
    /\ pc' = "l68"
    /\ obs' = [tp |-> true_position, nt |-> new_tick, raw |-> 0,
               isr |-> "none", isr_raw |-> 0]
    /\ last_op' = "step"
    /\ UNCHANGED <<delta_val, new_tick, true_position, ret, acc>>
    /\ stepFrame

\* Line 68: self.new_tick = self.timer.counter().
read68 ==
    /\ pc = "l68"
    /\ new_tick' = counter
    /\ pc' = "l70"
    /\ obs' = [obs EXCEPT !.raw = counter]
    /\ last_op' = "step"
    /\ UNCHANGED <<delta_val, last_tick, true_position, ret, acc>>
    /\ stepFrame

\* Line 70: self.delta_val = self.new_tick - self.last_tick.
read70 ==
    /\ pc = "l70"
    /\ delta_val' = new_tick - last_tick
    /\ pc' = "l73"
    /\ last_op' = "step"
    /\ UNCHANGED <<last_tick, new_tick, true_position, ret, acc, obs>>
    /\ stepFrame

\* Lines 73-76: the overflow/underflow correction of self.delta_val.
read73 ==
    /\ pc = "l73"
    /\ delta_val' = Correction(delta_val, period)
    /\ pc' = "l78"
    /\ last_op' = "step"
    /\ UNCHANGED <<last_tick, new_tick, true_position, ret, acc, obs>>
    /\ stepFrame

\* Mutant of line 78: = instead of +=.
load78Assign == acc' = delta_val

\* Line 78, first half: the sum self.true_position + self.delta_val.
load78 == acc' = true_position + delta_val

read78 ==
    /\ pc = "l78"
    /\ load78
    /\ pc' = "l78st"
    /\ last_op' = "step"
    /\ UNCHANGED <<delta_val, last_tick, new_tick, true_position, ret, obs>>
    /\ stepFrame

\* Line 78, second half: the sum is stored into self.true_position.
read78st ==
    /\ pc = "l78st"
    /\ true_position' = acc
    /\ pc' = "l79"
    /\ last_op' = "step"
    /\ UNCHANGED <<delta_val, last_tick, new_tick, ret, acc, obs>>
    /\ stepFrame

\* Line 79: return(self.true_position); the read() is over.
read79 ==
    /\ pc = "l79"
    /\ ret' = true_position
    /\ pc' = "idle"
    /\ last_op' = "readdone"
    /\ UNCHANGED <<delta_val, last_tick, new_tick, true_position, acc, obs>>
    /\ stepFrame

\* An interrupt handler calls zero() inside the read() in progress.
IsrZero ==
    /\ pc # "idle"
    /\ obs.isr = "none"
    /\ zero
    /\ obs' = [obs EXCEPT !.isr = "zero"]
    /\ last_op' = "isr"
    /\ UNCHANGED <<pc, acc>>
    /\ UNCHANGED <<second, truePos, since_read, seen_raw, pos_before, has_read,
                   zeroed, zeroed_since_read, zeroed_between, aliased,
                   wrapped, bigdiff, zero_tick, moves>>

\* An interrupt handler calls read() inside the read() in progress.
IsrRead ==
    /\ pc # "idle"
    /\ obs.isr = "none"
    /\ read(counter)
    /\ obs' = [obs EXCEPT !.isr = "read", !.isr_raw = counter]
    /\ last_op' = "isr"
    /\ UNCHANGED <<pc, acc>>
    /\ UNCHANGED <<second, truePos, since_read, seen_raw, pos_before, has_read,
                   zeroed, zeroed_since_read, zeroed_between, aliased,
                   wrapped, bigdiff, zero_tick, moves>>

\* The main program calls zero() between two of its reads.
ZeroIdle == pc = "idle" /\ Zero

NextIntr ==
    \/ MoveIntr
    \/ ZeroIdle
    \/ read66 \/ read68 \/ read70 \/ read73 \/ read78 \/ read78st \/ read79
    \/ IsrZero \/ IsrRead

SpecIntr == Init /\ [][NextIntr]_vars

\* ------------------------------------------------------------ the claims
\* A step that is a call of read() / of zero().
ReadStep == last_op' = "read"
ZeroStep == last_op' = "zero"

\* C1: while every displacement between consecutive reads (and before the
\* first) is smaller in magnitude than half the counter range and zero() has
\* not been called, the value read() returns is the true unbounded tick count.
C1_ReadReturnsTrueCount ==
    (last_op = "read" /\ ~aliased /\ ~zeroed) => ret = truePos

\* C2: when the raw difference is below minus half the modulus 65536, read()
\* adds raw - last_raw + 65536 to true_position (65530 -> 5 adds 11).
C2_OverflowAddsModulus ==
    [][(ReadStep /\ counter - new_tick < -HalfRange)
         => true_position' = true_position + (counter - new_tick + CounterRange)]_vars

\* C3: when the raw difference is above half the modulus 65536, read() adds
\* raw - last_raw - 65536 to true_position (5 -> 65530 subtracts 11).
C3_UnderflowSubtractsModulus ==
    [][(ReadStep /\ counter - new_tick > HalfRange)
         => true_position' = true_position + (counter - new_tick - CounterRange)]_vars

\* C4: while every raw reading differs from the one before it (the first from
\* 0) by less than half the modulus, the counter has never wrapped and zero()
\* has not been called, true_position after a read is the last raw reading.
C4_NoWrapAccumulation ==
    (last_op = "read" /\ ~bigdiff /\ ~wrapped /\ ~zeroed)
        => (true_position = seen_raw /\ ret = seen_raw)

\* C4 witness: two reads of a counter that climbed without wrapping, the
\* second difference being the largest one below half the modulus.
C4_Witness ==
    /\ last_op = "read" /\ ~bigdiff /\ ~wrapped /\ ~zeroed
    /\ last_tick = 11 /\ seen_raw = 11 + 32767 /\ true_position = 32778

C6_ZeroEffectAndFrame ==
    /\ [](ENABLED Zero)
    /\ [][ZeroStep => (/\ true_position' = 0
                       /\ UNCHANGED <<new_tick, last_tick, period, counter>>)]_vars

\* C6 witness: zero() called on a non-zero position with a non-zero reference.
C6_Witness ==
    /\ last_op = "zero" /\ has_read /\ ret # 0 /\ true_position = 0
    /\ new_tick # 0 /\ last_tick # 0 /\ counter # 0

\* C7: a raw difference of exactly +32768 or -32768 is treated as no wrap,
\* true_position changes by exactly that raw difference.
C7_BoundaryIsNoWrap ==
    [][(ReadStep /\ Abs(counter - new_tick) = HalfRange)
         => true_position' = true_position + (counter - new_tick)]_vars

\* C8: reading a, then b, then a again (no zero() in between): the corrected
\* delta of the step back is minus that of the step out, and true_position is
\* back at its value after the first read of a.
C8_ReversalSymmetry ==
    [][(ReadStep /\ has_read /\ ~zeroed_since_read /\ ~zeroed_between
          /\ counter = last_tick)
         => (delta_val' = -delta_val /\ true_position' = pos_before)]_vars

\* C8 witness: 65530, 5, 65530 read in turn; out across the wrap and back.
C8_Witness ==
    /\ last_op = "read" /\ ~zeroed /\ moves = 3
    /\ seen_raw = 65530 /\ last_tick = 5 /\ delta_val < 0
    /\ true_position = pos_before + delta_val

\* C9: a read() that observes the same raw value as the read() just before it
\* computes delta 0, leaves true_position unchanged and returns the same value.
C9_RepeatedReadIdempotent ==
    [][(ReadStep /\ has_read /\ ~zeroed_since_read /\ counter = seen_raw)
         => (delta_val' = 0 /\ true_position' = true_position /\ ret' = ret)]_vars

\* C9 witness: the state after a second read of the same non-zero raw value.
C9_Witness ==
    /\ last_op = "read" /\ last_tick = new_tick /\ new_tick = 11
    /\ delta_val = 0 /\ ret = 11 /\ pos_before = 11

\* C10 as stated: after a read() that follows a displacement of at least half
\* the modulus, true_position differs from the true accumulated displacement.
C10_AliasedPositionDiffers ==
    [][(ReadStep /\ Abs(since_read) >= HalfRange /\ ~zeroed)
         => true_position' # truePos]_vars

\* C10 amended: the amount such a read() adds to true_position differs from
\* the true displacement since the previous read.
C10_AliasedStepDiffers ==
    [][(ReadStep /\ Abs(since_read) >= HalfRange)
         => true_position' - true_position # since_read]_vars

\* C10 witness: a step of +40000 read back as -25535.
C10_Witness ==
    /\ last_op = "read" /\ aliased /\ moves = 1
    /\ truePos = 40000 /\ ret = -25535
\* C12: new_tick and last_tick always lie in 0..65535, and after a read()
\* new_tick is the raw value that read() observed.
C12_LastRawInRange ==
    /\ new_tick \in 0..(CounterRange - 1)
    /\ last_tick \in 0..(CounterRange - 1)
    /\ (last_op = "read" => (new_tick = seen_raw /\ new_tick = counter))

\* C12 witness: after reads of 5 and then 65530, both ends of the range.
C12_Witness ==
    last_op = "read" /\ last_tick = 5 /\ new_tick = 65530 /\ counter = 65530

\* C15: no read() and no zero() changes the timer's counter register; it
\* changes only when the shaft moves.
C15_CounterReadOnly ==
    [][((ReadStep \/ ZeroStep) => counter' = counter)
         /\ (counter' # counter => last_op' = "move")]_vars

\* C15 witness: a read() has sampled a counter that has moved off 0 and the
\* counter still holds the sampled value.
C15_Witness ==
    last_op = "read" /\ counter = 65530 /\ seen_raw = 65530 /\ ret # 0

\* C16: the first read() after construction, observing r, returns r when r
\* is at most half the modulus 65536 and r - 65536 when r is above it.
C16_FirstRead ==
    [][(ReadStep /\ ~has_read)
         => ret' = IF counter <= HalfRange THEN counter
                   ELSE counter - CounterRange]_vars

\* C17: the corrected delta read() adds to true_position has magnitude at
\* most half of self.period.
C17_BoundedStep ==
    /\ 2 * Abs(delta_val) <= period
    /\ (last_op = "read" => Abs(true_position - pos_before) * 2 <= period)

\* C17 witness: a raw difference of 32768 corrected to the largest magnitude.
C17_Witness ==
    /\ last_op = "read" /\ Abs(new_tick - last_tick) = HalfRange
    /\ 2 * Abs(delta_val) = period - 1

\* C18: true_position is congruent modulo self.period to new_tick minus the
\* value new_tick held at the most recent zero() (0 if there was none).
C18_Congruence ==
    (true_position - (new_tick - zero_tick)) % period = 0

\* C18 witness: after a zero() at a non-zero reading, a read() across the
\* wrap point whose delta was corrected by one period.
C18_Witness ==
    /\ last_op = "read" /\ zeroed /\ zero_tick # 0
    /\ delta_val # new_tick - last_tick
    /\ true_position # new_tick - zero_tick
\* C11: a read() whose raw value lies outside 0..65535 signals an error
\* instead of returning, and does not fold the value into new_tick or
\* true_position.
C11_OutOfRangeRejected ==
    [][(last_op' = "badread")
         => (new_tick' = new_tick /\ true_position' = true_position
             /\ ret' = ret)]_vars
\* C13: with two driver objects on distinct timers, a read() or zero() on
\* one object leaves every field of the other object, and the other timer,
\* unchanged, in every interleaving of calls on the two.
C13_InstancesIndependent ==
    [][/\ (last_op' \in {"read", "zero"}) => UNCHANGED <<encB, counterB>>
       /\ (last_op' \in {"readB", "zeroB"}) => UNCHANGED <<fieldsA, counter>>]_vars

\* C13 witness: both objects have read a moved counter, the first holds a
\* non-zero position, and the second has just been zeroed.
C13_Witness ==
    /\ last_op = "zeroB" /\ encB.new_tick # 0 /\ encB.true_position = 0
    /\ encB.delta_val # 0
    /\ has_read /\ true_position # 0 /\ new_tick # encB.new_tick
\* true_position after the main program's read() and the interrupting call,
\* had the two run one after the other, in either order.
SequentialOutcomes ==
    LET rM == obs.raw
        rI == obs.isr_raw
    IN  IF obs.isr = "zero"
        THEN {0, Correction(rM - obs.nt, period)}
        ELSE IF obs.isr = "read"
        THEN {obs.tp + Correction(rM - obs.nt, period)
                     + Correction(rI - rM, period),
              obs.tp + Correction(rI - obs.nt, period)
                     + Correction(rM - rI, period)}
        ELSE {obs.tp + Correction(rM - obs.nt, period)}

\* C14: a read() that no other call on the object interrupted ends in the
\* state of a sequential read(); the witness is a read() that a zero()
\* interrupted and that ends with a true_position of neither sequential order.
C14_UninterruptedIsSequential ==
    (last_op = "readdone" /\ obs.isr = "none")
        => /\ true_position \in SequentialOutcomes
           /\ ret = true_position
           /\ new_tick = obs.raw /\ last_tick = obs.nt
           /\ delta_val = Correction(obs.raw - obs.nt, period)

\* C14 witness: a zero() between the two halves of line 78 is lost.
C14_Witness ==
    /\ last_op = "readdone" /\ obs.isr = "zero"
    /\ true_position \notin SequentialOutcomes
    /\ obs.tp # 0 /\ delta_val # 0
    /\ true_position = obs.tp + delta_val
====
